---- MODULE Spec2Model ----
(***************************************************************************)
(* Model of supply_chain_intelligence.py: the TF-IDF DocumentSearchEngine, *)
(* the DemandForecaster and the SupplyChainIntelligence facade.            *)
(*                                                                         *)
(* Texts are sequences of one-character strings.  Real numbers (scores,    *)
(* demand, slopes) are exact rationals [num, den]; np.log is a table of    *)
(* natural logarithms in thousandths.  List positions are 1-based here; the *)
(* 'index' field of a search result keeps the code's 0-based value.        *)
(***************************************************************************)
EXTENDS Integers, Sequences, FiniteSets, TLC

VARIABLES documents, vocab, doc_freq, doc_terms, df, ai, op, result

vars == <<documents, vocab, doc_freq, doc_terms, df, ai, op, result>>

(* ------------------------------ bounds --------------------------------- *)
MaxDocs == 3
MaxK == 2

(* ------------------------------ numbers -------------------------------- *)
Min(a, b) == IF a <= b THEN a ELSE b
Max(a, b) == IF a >= b THEN a ELSE b
Abs(a) == IF a < 0 THEN 0 - a ELSE a

RECURSIVE Gcd(_, _)
Gcd(a, b) == IF b = 0 THEN a ELSE Gcd(b, a % b)

\* the rational n/d (d > 0) in lowest terms
Rat(n, d) ==
    LET g == Gcd(Abs(n), d)
    IN  [num |-> n \div g, den |-> d \div g]

Zero == Rat(0, 1)
RatAdd(a, b) == Rat(a.num * b.den + b.num * a.den, a.den * b.den)
RatMul(a, b) == Rat(a.num * b.num, a.den * b.den)
RatLess(a, b) == a.num * b.den < b.num * a.den
RatLeq(a, b) == a.num * b.den <= b.num * a.den

\* ln(1), ln(2), ... ln(12) in thousandths
LnTable == <<0, 693, 1099, 1386, 1609, 1792, 1946, 2079, 2197, 2303, 2398, 2485>>

\* np.log(n / d) for a float quotient of two small positive integers
NpLog(n, d) ==
    LET g == Gcd(n, d)
    IN  Rat(LnTable[n \div g] - LnTable[d \div g], 1000)

(* ------------------------------- texts --------------------------------- *)
UpperLetters == <<"A","B","C","D","E","F","G","H","I","J","K","L","M",
                  "N","O","P","Q","R","S","T","U","V","W","X","Y","Z">>
LowerLetters == <<"a","b","c","d","e","f","g","h","i","j","k","l","m",
                  "n","o","p","q","r","s","t","u","v","w","x","y","z">>
Digits == <<"0","1","2","3","4","5","6","7","8","9">>

\* code-point order of the word characters
CodeOrder == Digits \o UpperLetters \o <<"_">> \o LowerLetters

Range(s) == {s[i] : i \in DOMAIN s}

Ord(c) == CHOOSE i \in DOMAIN CodeOrder : CodeOrder[i] = c

UpperSet == Range(UpperLetters)
WordChars == Range(CodeOrder)

\* str.lower, one character
LowerChar(c) ==
    IF c \in UpperSet
    THEN LowerLetters[CHOOSE i \in DOMAIN UpperLetters : UpperLetters[i] = c]
    ELSE c

Lower(text) == [i \in DOMAIN text |-> LowerChar(text[i])]

\* \w
IsWordChar(c) == c \in WordChars

\* re.findall(r'\b\w+\b', text): the maximal runs of word characters
RECURSIVE ScanWords(_, _, _, _)
ScanWords(text, i, cur, acc) ==
    IF i > Len(text)
    THEN IF cur = <<>> THEN acc ELSE Append(acc, cur)
    ELSE IF IsWordChar(text[i])
         THEN ScanWords(text, i + 1, Append(cur, text[i]), acc)
         ELSE ScanWords(text, i + 1, <<>>,
                        IF cur = <<>> THEN acc ELSE Append(acc, cur))

FindWords(text) == ScanWords(text, 1, <<>>, <<>>)

LongEnough(w) == Len(w) > 2

_tokenize(text) == SelectSeq(FindWords(Lower(text)), LongEnough)

\* str < str
StrLess(a, b) ==
    \E i \in 1..(Min(Len(a), Len(b)) + 1) :
        /\ \A j \in 1..(i - 1) : a[j] = b[j]
        /\ \/ i = Len(a) + 1 /\ i <= Len(b)
           \/ i <= Len(a) /\ i <= Len(b) /\ Ord(a[i]) < Ord(b[i])

\* sorted(list(S))
RECURSIVE Sorted(_)
Sorted(S) ==
    IF S = {} THEN <<>>
    ELSE LET m == CHOOSE x \in S : \A y \in S \ {x} : StrLess(x, y)
         IN  <<m>> \o Sorted(S \ {m})

\* words joined by single spaces
RECURSIVE Join(_)
Join(ws) ==
    IF ws = <<>> THEN <<>>
    ELSE IF Len(ws) = 1 THEN ws[1]
    ELSE ws[1] \o <<" ">> \o Join(Tail(ws))

w_cat == <<"c","a","t">>
w_Cat == <<"C","a","t">>
w_dog == <<"d","o","g">>
w_Dog == <<"D","o","g">>
w_to == <<"t","o">>
w_cats == <<"c","a","t","s">>
w_dogs == <<"d","o","g","s">>
w_are == <<"a","r","e">>
w_great == <<"g","r","e","a","t">>
w_too == <<"t","o","o">>
w_fish == <<"f","i","s","h">>
w_swim == <<"s","w","i","m">>

\* the documents a corpus is drawn from
DocTexts ==
    { <<>>,
      w_Cat,
      Join(<<w_to, w_dog>>),
      Join(<<w_cat, w_dog>>),
      Join(<<w_cat, w_cat, w_dog>>) }

\* the corpus of the end-to-end example
GreatCorpus ==
    << Join(<<w_cats, w_are, w_great>>),
       Join(<<w_dogs, w_are, w_great, w_too>>),
       Join(<<w_fish, w_swim>>) >>

Corpora ==
    UNION { [1..n -> DocTexts] : n \in 0..MaxDocs } \cup {GreatCorpus}

Queries ==
    { <<>>,
      w_cat,
      w_Dog,
      w_to,
      w_great,
      Join(<<w_cat, w_dog>>),
      Join(<<w_cat, w_cat>>) }

TopKs == (0 - 1)..MaxK

(* ------------------------ DocumentSearchEngine ------------------------- *)
Returned(v) == [status |-> "returned", value |-> v]
Raised(e) == [status |-> "raised", value |-> e]
NoResult == [status |-> "none", value |-> <<>>]

\* _build_index: the per-document term lists
BuildDocTerms(docs) == [i \in DOMAIN docs |-> _tokenize(docs[i])]

\* _build_index: the sorted vocabulary
BuildVocab(docs) ==
    Sorted(UNION {Range(BuildDocTerms(docs)[i]) : i \in DOMAIN docs})

\* _build_index: the Counter of documents containing each term
BuildDocFreq(docs) ==
    LET terms == BuildDocTerms(docs)
    IN  [t \in UNION {Range(terms[i]) : i \in DOMAIN docs} |->
            Cardinality({i \in DOMAIN docs : t \in Range(terms[i])})]

\* list.count
Count(terms, term) == Cardinality({i \in DOMAIN terms : terms[i] = term})

\* Counter.get(term, default)
DocFreqGet(term, default) ==
    IF term \in DOMAIN doc_freq THEN doc_freq[term] ELSE default

_tfidf_score(term, doc_idx) ==
    LET tf == Rat(Count(doc_terms[doc_idx], term),
                  Max(Len(doc_terms[doc_idx]), 1))
        idf == NpLog(Len(documents), DocFreqGet(term, 0) + 1)
    IN  RatMul(tf, idf)

\* term in self.vocab
InVocab(term) == \E i \in DOMAIN vocab : vocab[i] = term

\* sum(_tfidf_score(term, doc_idx) for term in query_terms if term in vocab)
RECURSIVE SumScores(_, _)
SumScores(query_terms, doc_idx) ==
    IF query_terms = <<>> THEN Zero
    ELSE LET rest == SumScores(Tail(query_terms), doc_idx)
         IN  IF InVocab(Head(query_terms))
             THEN RatAdd(_tfidf_score(Head(query_terms), doc_idx), rest)
             ELSE rest

\* the scores list of search
Scores(query) ==
    [doc_idx \in DOMAIN documents |-> SumScores(_tokenize(query), doc_idx)]

\* np.argsort with the default (unstable) sort: every ordering of the positions
\* that puts the scores in ascending order
Argsort(scores) ==
    LET n == Len(scores)
    IN  {p \in [1..n -> 1..n] :
            /\ \A i, j \in 1..n : i /= j => p[i] /= p[j]
            /\ \A i, j \in 1..n : i < j => RatLeq(scores[p[i]], scores[p[j]])}

\* seq[-k:] with Python's slice normalisation of the start -k
LastK(seq, k) ==
    LET n == Len(seq)
        start == IF 0 - k < 0 THEN Max(n - k, 0) ELSE Min(0 - k, n)
    IN  SubSeq(seq, start + 1, n)

\* seq[::-1]
Reverse(seq) == [i \in DOMAIN seq |-> seq[Len(seq) + 1 - i]]

\* as TopIndices, the [::-1] forgotten
TopIndicesAscending(order, top_k) == LastK(order, top_k)

\* np.argsort(scores)[-top_k:][::-1], for one outcome of the sort
TopIndices(order, top_k) == Reverse(LastK(order, top_k))

\* the results list search builds from top_indices
SearchResults(query, top_indices) ==
    LET scores == Scores(query)
    IN  [rank \in DOMAIN top_indices |->
            [rank |-> rank,
             document |-> documents[top_indices[rank]],
             score |-> scores[top_indices[rank]],
             index |-> top_indices[rank] - 1]]

\* as search, with an early return of no result when no query term is indexed
search_rejecting(query, top_k, order) ==
    IF \A i \in DOMAIN _tokenize(query) : ~InVocab(_tokenize(query)[i])
    THEN Returned(<<>>)
    ELSE Returned(SearchResults(query, TopIndices(order, top_k)))

\* as search, with a selection (np.argpartition) that rejects top_k > N
search_partition(query, top_k, order) ==
    IF top_k > Len(documents)
    THEN Raised("ValueError")
    ELSE Returned(SearchResults(query, TopIndices(order, top_k)))

\* search(query, top_k) for one outcome `order` of the sort
search(query, top_k, order) ==
    Returned(SearchResults(query, TopIndices(order, top_k)))

\* as IndexAfterSearch, the query's terms kept in the term lists
IndexAfterSearchKeeping(query) ==
    [documents |-> documents, vocab |-> vocab,
     doc_freq |-> doc_freq, doc_terms |-> Append(doc_terms, _tokenize(query))]

\* what search leaves in the index fields: it assigns none of them
IndexAfterSearch(query) ==
    [documents |-> documents, vocab |-> vocab,
     doc_freq |-> doc_freq, doc_terms |-> doc_terms]

\* DocumentSearchEngine(docs)
EngineInit(docs) ==
    /\ documents = docs
    /\ vocab = BuildVocab(docs)
    /\ doc_freq = BuildDocFreq(docs)
    /\ doc_terms = BuildDocTerms(docs)

\* no call in progress: the last result has been taken by the caller
Idle == [name |-> "idle"]

Search(query, top_k) ==
    /\ op = Idle
    /\ \E order \in Argsort(Scores(query)) :
           result' = search(query, top_k, order)
    /\ op' = [name |-> "search", query |-> query, top_k |-> top_k]
    /\ documents' = IndexAfterSearch(query).documents
    /\ vocab' = IndexAfterSearch(query).vocab
    /\ doc_freq' = IndexAfterSearch(query).doc_freq
    /\ doc_terms' = IndexAfterSearch(query).doc_terms
    /\ UNCHANGED <<df, ai>>

InitSearch ==
    /\ \E docs \in Corpora : EngineInit(docs)
    /\ df = <<>>
    /\ ai = FALSE
    /\ op = Idle
    /\ result = NoResult

\* the caller takes the returned value (or the exception) and is ready to call again
Return ==
    /\ op /= Idle
    /\ op' = Idle
    /\ result' = NoResult
    /\ UNCHANGED <<documents, vocab, doc_freq, doc_terms, df, ai>>

NextSearch ==
    \/ \E query \in Queries, top_k \in TopKs : Search(query, top_k)
    \/ Return

SpecSearch == InitSearch /\ [][NextSearch]_vars

(* --------------------------- DemandForecaster -------------------------- *)
MaxHist == 3
MaxVal == 3
MaxPeriods == 2

\* demand is counted in twenty-fifths of a unit (steps of 0.04)
Demand(v) == Rat(v, 25)

\* the 'y' columns forecast is called with
Histories ==
    UNION { [1..n -> {Demand(v) : v \in 0..MaxVal}] : n \in 0..MaxHist }

RatNeg(a) == Rat(0 - a.num, a.den)
RatSub(a, b) == RatAdd(a, RatNeg(b))
RatDiv(a, b) ==
    IF b.num > 0 THEN Rat(a.num * b.den, a.den * b.num)
    ELSE Rat(0 - a.num * b.den, a.den * (0 - b.num))
Whole(n) == Rat(n, 1)

RECURSIVE RatSum(_)
RatSum(s) == IF s = <<>> THEN Zero ELSE RatAdd(Head(s), RatSum(Tail(s)))

\* np.mean
Mean(y) == RatDiv(RatSum(y), Whole(Len(y)))

\* np.polyfit(np.arange(n), y, 1)[0] for n >= 2: the least-squares slope
PolyfitSlope(y) ==
    LET n == Len(y)
        x == [i \in 1..n |-> i - 1]
        sx == RatSum([i \in 1..n |-> Whole(x[i])])
        sxx == RatSum([i \in 1..n |-> Whole(x[i] * x[i])])
        sy == RatSum(y)
        sxy == RatSum([i \in 1..n |-> RatMul(Whole(x[i]), y[i])])
    IN  RatDiv(RatSub(RatMul(Whole(n), sxy), RatMul(sx, sy)),
               RatSub(RatMul(Whole(n), sxx), RatMul(sx, sx)))

\* as TrendLabels, the thresholds at +/-1
TrendLabelsUnit(trend_coef) ==
    IF RatLess(Whole(1), trend_coef) THEN {"increasing"}
    ELSE IF RatLess(trend_coef, Whole(0 - 1)) THEN {"decreasing"}
    ELSE {"stable"}

\* the trend classification; a fitted slope that is exactly at a threshold may
\* round to either side of the float literal
TrendLabels(trend_coef) ==
    LET up == Rat(1, 10)
        down == Rat(0 - 1, 10)
    IN  (IF RatLeq(up, trend_coef) THEN {"increasing"} ELSE {})
        \cup (IF RatLeq(trend_coef, down) THEN {"decreasing"} ELSE {})
        \cup (IF RatLeq(down, trend_coef) /\ RatLeq(trend_coef, up)
              THEN {"stable"} ELSE {})

\* round(x, 2) for x >= 0, ties to even
Round2(x) ==
    LET q == 100 * x.num
        fl == q \div x.den
        twice == 2 * (q - fl * x.den)
        up == twice > x.den \/ (twice = x.den /\ fl % 2 = 1)
    IN  Rat(IF up THEN fl + 1 ELSE fl, 100)

RatMax(a, b) == IF RatLeq(b, a) THEN a ELSE b

\* the point estimate of horizon step i (0-based), before rounding
ForecastValue(y, i) ==
    RatMax(Zero, RatAdd(Mean(y), RatMul(PolyfitSlope(y), Whole(Len(y) + i))))

\* the recommended action, from the growth between first and last observation:
\* growth_rate = (last - first) / (first + 1e-10) * 100 against +/-15, and
\* growth_rate = 0 for a single observation
Action(y) ==
    LET first == y[1]
        last == y[Len(y)]
        gain == RatMul(RatSub(last, first), Whole(100))
    IN  IF Len(y) <= 1 THEN "MAINTAIN"
        ELSE IF first = Zero
        THEN IF RatLess(Zero, gain) THEN "INCREASE"
             ELSE IF RatLess(gain, Zero) THEN "DECREASE" ELSE "MAINTAIN"
        ELSE IF RatLess(RatMul(Whole(15), first), gain) THEN "INCREASE"
             ELSE IF RatLess(gain, RatMul(Whole(0 - 15), first)) THEN "DECREASE"
             ELSE "MAINTAIN"

\* what np.polyfit and the classification of its slope can produce for a series.
\* np.polyfit rejects an empty x.  For a single observation the x column of the
\* least-squares matrix has norm 0 and is scaled to nan: the solver then fails
\* to converge or returns nan, and a nan slope compares false with both
\* thresholds.
Fits(y) ==
    IF Len(y) = 0 THEN {[status |-> "raised", error |-> "TypeError"]}
    ELSE IF Len(y) = 1
    THEN {[status |-> "raised", error |-> "LinAlgError"],
          [status |-> "nan", trend |-> "stable"]}
    ELSE {[status |-> "ok", trend |-> t] : t \in TrendLabels(PolyfitSlope(y))}

\* forecast(historical_data, sku_id, periods) for one outcome `fit` of the trend
\* fit; max(0, nan) is 0
forecast(y, sku_id, periods, fit) ==
    IF fit.status = "raised" THEN Raised(fit.error)
    ELSE Returned(
        [sku_id |-> sku_id,
         predictions |->
            [i \in 1..periods |->
                [predicted_demand |->
                    IF fit.status = "nan" THEN Zero
                    ELSE Round2(ForecastValue(y, i - 1))]],
         metrics |-> [historical_avg |-> Round2(Mean(y)), trend |-> fit.trend],
         recommendations |-> [action |-> Action(y)]])

SkuIds == {"SKU0", "SKU1", "SKU9"}

Forecast(y, sku_id, periods) ==
    /\ op = Idle
    /\ \E fit \in Fits(y) :
           result' = forecast(y, sku_id, periods, fit)
    /\ op' = [name |-> "forecast", history |-> y, sku_id |-> sku_id,
              periods |-> periods]
    /\ UNCHANGED <<documents, vocab, doc_freq, doc_terms, df, ai>>

InitForecast ==
    /\ EngineInit(<<>>)
    /\ df = <<>>
    /\ ai = FALSE
    /\ op = Idle
    /\ result = NoResult

NextForecast ==
    \/ \E y \in Histories, periods \in 1..MaxPeriods : Forecast(y, "SKU0", periods)
    \/ Return

SpecForecast == InitForecast /\ [][NextForecast]_vars

(* ------------------------ SupplyChainIntelligence ---------------------- *)
MaxRows == 1
SEARCH_TOP_K == 3

w_INVENTORY == <<"I","N","V","E","N","T","O","R","Y">>
w_MANAGEMENT == <<"M","A","N","A","G","E","M","E","N","T">>
w_POLICY == <<"P","O","L","I","C","Y">>
w_SUPPLIER == <<"S","U","P","P","L","I","E","R">>
w_PERFORMANCE == <<"P","E","R","F","O","R","M","A","N","C","E">>
w_STANDARDS == <<"S","T","A","N","D","A","R","D","S">>
w_RISK == <<"R","I","S","K">>
w_FRAMEWORK == <<"F","R","A","M","E","W","O","R","K">>
w_Product == <<"P","r","o","d","u","c","t">>
w_SKU0 == <<"S","K","U","0">>
w_SKU1 == <<"S","K","U","1">>
w_SKU9 == <<"S","K","U","9">>
w_policy == <<"p","o","l","i","c","y">>
w_risk == <<"r","i","s","k">>

\* the text of a SKU identifier
SkuText(sku) ==
    CASE sku = "SKU0" -> w_SKU0
      [] sku = "SKU1" -> w_SKU1
      [] OTHER -> w_SKU9

\* the rows of the data file: the SKU and the number of products sold
Rows == [SKU : {"SKU0", "SKU1"}, sold : {0, 30}]

DataFrames == UNION { [1..n -> Rows] : n \in 0..MaxRows }

\* the three policy documents, by their headings
PolicyDocs ==
    << Join(<<w_INVENTORY, w_MANAGEMENT, w_POLICY>>),
       Join(<<w_SUPPLIER, w_PERFORMANCE, w_STANDARDS>>),
       Join(<<w_RISK, w_MANAGEMENT, w_FRAMEWORK>>) >>

\* the document of one product row, to its SKU
ProductDoc(row) == Join(<<w_Product, SkuText(row.SKU)>>) \o <<":">>

_create_documents(data) ==
    PolicyDocs \o [i \in DOMAIN data |-> ProductDoc(data[i])]

\* df[df['SKU'] == sku_id]
RowsOf(sku_id) == SelectSeq(df, LAMBDA row : row.SKU = sku_id)

\* _generate_historical_data(base_demand): max(0, trend + noise) per day, the
\* noise drawn with deviation base_demand * 0.1; MaxHist days stand for the 90
_generate_historical_data(base_demand) ==
    {y \in Histories :
        /\ Len(y) = MaxHist
        /\ base_demand = Zero => \A i \in DOMAIN y : y[i] = Zero}

\* whether forecast_demand(sku_id) reaches self.forecaster.forecast
CallsForecaster(sku_id) == RowsOf(sku_id) /= <<>>

\* as forecast_demand, without the product.empty check: product.iloc[0] fails
forecast_demand_unchecked(sku_id, days, hist, fit) ==
    IF RowsOf(sku_id) = <<>>
    THEN Raised("IndexError")
    ELSE forecast(hist, sku_id, days, fit)

\* forecast_demand(sku_id, days) for the history `hist` generated and the
\* outcome `fit` of the trend fit
forecast_demand(sku_id, days, hist, fit) ==
    IF RowsOf(sku_id) = <<>>
    THEN Returned([error |-> <<"SKU ", sku_id, " not found">>])
    ELSE forecast(hist, sku_id, days, fit)

\* the histories forecast_demand(sku_id) can generate (none when it returns early)
HistoriesFor(sku_id) ==
    IF RowsOf(sku_id) = <<>> THEN {<<>>}
    ELSE _generate_historical_data(Rat(RowsOf(sku_id)[1].sold, 30))

ForecastDemand(sku_id, days) ==
    /\ op = Idle
    /\ \E hist \in HistoriesFor(sku_id) :
         \E fit \in Fits(hist) :
           result' = forecast_demand(sku_id, days, hist, fit)
    /\ op' = [name |-> "forecast_demand", sku_id |-> sku_id, days |-> days,
              forecaster_called |-> CallsForecaster(sku_id)]
    /\ UNCHANGED <<documents, vocab, doc_freq, doc_terms, df, ai>>

SysQuestions == {<<>>, w_policy, Join(<<w_risk, w_policy>>), Join(<<w_Product, w_SKU0>>)}

\* AIAnswerGenerator.generate_answer: the model's text, or the error text
GenerateAnswers == {"generated text", "Error generating AI answer"}

\* query(question) for one outcome `order` of the sort and `generated` of the model
query(question, order, generated) ==
    LET search_results == search(question, SEARCH_TOP_K, order).value
    IN  IF ai
        THEN Returned([question |-> question, answer |-> generated,
                       source |-> "ai", context_documents |-> search_results])
        ELSE IF search_results = <<>> THEN Raised("IndexError")
        ELSE Returned([question |-> question,
                       answer |-> SubSeq(search_results[1].document, 1,
                                         Min(500, Len(search_results[1].document))),
                       source |-> "retrieval",
                       context_documents |-> search_results])

Query(question) ==
    /\ op = Idle
    /\ \E order \in Argsort(Scores(question)) :
         \E generated \in (IF ai THEN GenerateAnswers ELSE {"none"}) :
           result' = query(question, order, generated)
    /\ op' = [name |-> "query", question |-> question]
    /\ documents' = IndexAfterSearch(question).documents
    /\ vocab' = IndexAfterSearch(question).vocab
    /\ doc_freq' = IndexAfterSearch(question).doc_freq
    /\ doc_terms' = IndexAfterSearch(question).doc_terms
    /\ UNCHANGED <<df, ai>>

\* SupplyChainIntelligence(data_file, use_ai)
Init ==
    /\ df \in DataFrames
    /\ EngineInit(_create_documents(df))
    /\ ai \in BOOLEAN
    /\ op = Idle
    /\ result = NoResult

Next ==
    \/ \E sku_id \in SkuIds, days \in 1..MaxPeriods : ForecastDemand(sku_id, days)
    \/ \E question \in SysQuestions : Query(question)
    \/ Return

Spec == Init /\ [][Next]_vars

(* ------------------------------ properties ----------------------------- *)
N == Len(documents)
Searched == op.name = "search"
QueryTerms == _tokenize(op.query)
Contains(doc_idx, term) == term \in Range(doc_terms[doc_idx])
\* the 1-based positions of the documents a result list returns
ReturnedDocs(r) == {r[i].index + 1 : i \in DOMAIN r}

\* C1: for N >= 1 and k >= 1, search returns min(k, N) results: the highest-scoring
\* documents in non-increasing order of score, with pairwise distinct indices,
\* result i carrying rank i (counted from 1), and the score and text of the
\* document at its index
C1_TopKByScore ==
    (Searched /\ N >= 1 /\ op.top_k >= 1) =>
        LET r == result.value
            scores == Scores(op.query)
        IN  /\ result.status = "returned"
            /\ Len(r) = Min(op.top_k, N)
            /\ \A i \in DOMAIN r :
                 /\ r[i].rank = i
                 /\ r[i].index \in 0..(N - 1)
                 /\ r[i].score = scores[r[i].index + 1]
                 /\ r[i].document = documents[r[i].index + 1]
            /\ \A i, j \in DOMAIN r :
                 i < j => /\ r[i].index /= r[j].index
                          /\ RatLeq(r[j].score, r[i].score)
            /\ \A d \in (1..N) \ ReturnedDocs(r) :
                 \A i \in DOMAIN r : ~RatLess(r[i].score, scores[d])

\* a search of three documents with three different scores, two of them returned
C1_Witness ==
    /\ Searched /\ N = 3 /\ op.top_k = 2
    /\ result.status = "returned" /\ Len(result.value) = 2
    /\ \A d, e \in 1..N : d /= e => Scores(op.query)[d] /= Scores(op.query)[e]

\* C2: for every k, also 0 and negative, search returns at most min(k, N) results
C2_LengthAtMostMin ==
    Searched =>
        /\ result.status = "returned"
        /\ Len(result.value) <= Min(op.top_k, N)

\* C3: when the single query term occurs in some documents and not in others,
\* the documents containing it score nonzero, the others score exactly 0, and
\* every document containing it is ranked above every returned document that
\* does not; for the corpus "cats are great", "dogs are great too", "fish swim"
\* and the query "great", k = 2 returns the first two documents
C3_ContainingRankedAbove ==
    (/\ Searched /\ op.top_k >= 1 /\ Len(QueryTerms) = 1
     /\ \E d \in 1..N : Contains(d, QueryTerms[1])
     /\ \E d \in 1..N : ~Contains(d, QueryTerms[1])) =>
        LET t == QueryTerms[1]
            r == result.value
            scores == Scores(op.query)
        IN  /\ \A d \in 1..N : Contains(d, t) <=> scores[d] /= Zero
            /\ \A i \in DOMAIN r :
                 ~Contains(r[i].index + 1, t) =>
                     \A d \in 1..N :
                        Contains(d, t) => \E j \in 1..(i - 1) : r[j].index + 1 = d
            /\ (documents = GreatCorpus /\ op.query = w_great /\ op.top_k = 2)
                 => ReturnedDocs(r) = {1, 2}

\* C4: when the single query term occurs in exactly one document, that document's
\* score is strictly greater than the score of every document without the term
C4_UniqueTermScoresHighest ==
    (/\ Searched /\ Len(QueryTerms) = 1
     /\ Cardinality({d \in 1..N : Contains(d, QueryTerms[1])}) = 1) =>
        LET t == QueryTerms[1]
            scores == Scores(op.query)
        IN  \A d, e \in 1..N :
                (Contains(d, t) /\ ~Contains(e, t)) => RatLess(scores[e], scores[d])

NoTermIndexed == \A i \in DOMAIN QueryTerms : ~InVocab(QueryTerms[i])

\* C5: on a non-empty corpus a query with no indexed term raises nothing, scores
\* every document exactly 0, and for k >= 1 still returns min(k, N) results
C5_UnmatchedQueryScoresZero ==
    (Searched /\ N >= 1 /\ NoTermIndexed) =>
        /\ result.status = "returned"
        /\ \A d \in 1..N : Scores(op.query)[d] = Zero
        /\ op.top_k >= 1 =>
             /\ Len(result.value) = Min(op.top_k, N)
             /\ \A i \in DOMAIN result.value : result.value[i].score = Zero

\* a query with a term, none of them indexed, returning two of three documents
C5_Witness ==
    /\ Searched /\ N = 3 /\ op.top_k = 2
    /\ QueryTerms /= <<>> /\ NoTermIndexed
    /\ vocab /= <<>>
    /\ result.status = "returned" /\ Len(result.value) = 2

\* C6: on an engine built from no document, every search returns the empty list
\* and raises nothing
C6_EmptyCorpusReturnsEmpty ==
    (Searched /\ N = 0) => result = Returned(<<>>)

\* a search for a term, with k = 2, on the engine built from no document
C6_Witness ==
    /\ Searched /\ N = 0 /\ vocab = <<>> /\ doc_terms = <<>>
    /\ QueryTerms /= <<>> /\ op.top_k = 2
    /\ result = Returned(<<>>)

\* C10: no step of the engine, search included, changes documents, vocab, doc_freq
\* or doc_terms
C10_SearchKeepsIndex ==
    [][/\ documents' = documents
       /\ vocab' = vocab
       /\ doc_freq' = doc_freq
       /\ doc_terms' = doc_terms]_vars

\* a search has run on a non-empty index, which is still the one _build_index made
C10_Witness ==
    /\ Searched /\ N >= 2 /\ QueryTerms /= <<>>
    /\ vocab = BuildVocab(documents) /\ vocab /= <<>>
    /\ doc_freq = BuildDocFreq(documents)
    /\ doc_terms = BuildDocTerms(documents)

Forecasted == op.name = "forecast"
StrictlyIncreasing(y) == \A i \in 1..(Len(y) - 1) : RatLess(y[i], y[i + 1])

\* C7: forecast on a series of no observation returns an error record and does
\* not raise
C7_EmptyHistoryReported ==
    (Forecasted /\ op.history = <<>>) =>
        /\ result.status = "returned"
        /\ "error" \in DOMAIN result.value

\* every point estimate of a returned forecast exceeds the historical average,
\* as computed and as reported
EstimatesAbove(y, value, steps) ==
    \A i \in steps :
        /\ RatLess(Mean(y), value.predictions[i].predicted_demand)
        /\ RatLess(value.metrics.historical_avg,
                   value.predictions[i].predicted_demand)

\* C8 as stated: every strictly increasing series of at least 2 observations gets
\* the label "increasing" and a last point estimate above the historical average
C8_EveryIncreasingSeries ==
    (Forecasted /\ Len(op.history) >= 2 /\ StrictlyIncreasing(op.history)) =>
        /\ result.status = "returned"
        /\ result.value.metrics.trend = "increasing"
        /\ EstimatesAbove(op.history, result.value, {op.periods})

\* C8: a strictly increasing series of at least 2 observations whose fitted slope
\* exceeds 0.1 gets the label "increasing" and every point estimate above the
\* historical average
C8_SteepIncreasingSeries ==
    (/\ Forecasted /\ Len(op.history) >= 2 /\ StrictlyIncreasing(op.history)
     /\ RatLess(Rat(1, 10), PolyfitSlope(op.history))) =>
        /\ result.status = "returned"
        /\ result.value.metrics.trend = "increasing"
        /\ EstimatesAbove(op.history, result.value, 1..op.periods)

\* a forecast of two steps from a strictly increasing series steeper than 0.1
C8_Witness ==
    /\ Forecasted /\ Len(op.history) >= 2 /\ StrictlyIncreasing(op.history)
    /\ RatLess(Rat(1, 10), PolyfitSlope(op.history))
    /\ op.periods = 2
    /\ result.status = "returned" /\ Len(result.value.predictions) = 2

\* C9: forecast_demand for an identifier in no row returns a record with only an
\* 'error' entry naming the identifier, raises nothing, does not reach the
\* forecaster, and changes neither the data nor the documents nor the index
C9_UnknownSkuReported ==
    [][(op'.name = "forecast_demand" /\ RowsOf(op'.sku_id) = <<>>) =>
          /\ result'.status = "returned"
          /\ DOMAIN result'.value = {"error"}
          /\ \E i \in DOMAIN result'.value.error :
                result'.value.error[i] = op'.sku_id
          /\ ~op'.forecaster_called
          /\ df' = df
          /\ documents' = documents
          /\ vocab' = vocab
          /\ doc_freq' = doc_freq
          /\ doc_terms' = doc_terms]_vars

\* forecast_demand was called on loaded data with an identifier in none of its rows
C9_Witness ==
    /\ op.name = "forecast_demand" /\ df /= <<>> /\ RowsOf(op.sku_id) = <<>>
    /\ result.status = "returned" /\ "error" \in DOMAIN result.value
    /\ documents = _create_documents(df)

\* the terms of a list, each kept at its first occurrence only
RECURSIVE Distinct(_)
Distinct(terms) ==
    IF terms = <<>> THEN <<>>
    ELSE LET front == Distinct(SubSeq(terms, 1, Len(terms) - 1))
             last == terms[Len(terms)]
         IN  IF last \in Range(front) THEN front ELSE Append(front, last)

\* C11: the score search computes for a document is the sum of tf*idf over the
\* distinct indexed terms of the query: repeating a term changes no score
C11_ScoreOverDistinctTerms ==
    Searched =>
        \A d \in 1..N :
            /\ Scores(op.query)[d] = SumScores(Distinct(QueryTerms), d)
            /\ \A i \in DOMAIN result.value :
                 result.value[i].index + 1 = d =>
                     result.value[i].score = SumScores(Distinct(QueryTerms), d)

\* C12: every score search computes and every score it returns is non-negative
C12_ScoresNonNegative ==
    Searched =>
        /\ \A d \in 1..N : RatLeq(Zero, Scores(op.query)[d])
        /\ \A i \in DOMAIN result.value : RatLeq(Zero, result.value[i].score)

\* C13: among documents of equal score search orders by ascending document index:
\* of two returned results with the same score the one with the smaller index has
\* the smaller rank, and no returned document has a larger index than an omitted
\* document of the same score
C13_TiesByAscendingIndex ==
    Searched =>
        LET r == result.value
            scores == Scores(op.query)
        IN  /\ \A i, j \in DOMAIN r :
                 (r[i].score = r[j].score /\ r[i].index < r[j].index) => i < j
            /\ \A i \in DOMAIN r :
                 \A d \in (1..N) \ ReturnedDocs(r) :
                    scores[d] = r[i].score => r[i].index + 1 < d

====
